---- MODULE Spec2Model ----
(***************************************************************************)
(* A model of the lambda_calculus parser (src/src/parser.rs): tokenize,   *)
(* _get_ast / get_ast, parse, fold_exprs and fold_terms.                   *)
(*                                                                         *)
(* A character is its Unicode scalar value (Rust `char`), a string is a    *)
(* sequence of characters.  Vectors are sequences; the Rust cursor `pos`   *)
(* is kept 0-based, so tokens[pos] of the source is tokens[pos + 1] here.  *)
(***************************************************************************)
EXTENDS Integers, Sequences, FiniteSets, TLC

VARIABLES input, pc, tokens, exprs, result

vars == <<input, pc, tokens, exprs, result>>

(***************************************************************************)
(* Characters                                                              *)
(***************************************************************************)
Ch == [backslash |-> 92, glyph |-> 955, lparen |-> 40, rparen |-> 41,
       d0 |-> 48, d1 |-> 49, d2 |-> 50, d3 |-> 51,
       space |-> 32, nbsp |-> 160, x |-> 120, at |-> 64]

(***************************************************************************)
(* Values of the program's enums                                           *)
(***************************************************************************)
Lambda == [tag |-> "Lambda"]
Lparen == [tag |-> "Lparen"]
Rparen == [tag |-> "Rparen"]
Number(n) == [tag |-> "Number", n |-> n]

Abstraction == [tag |-> "Abstraction"]
Sequence(es) == [tag |-> "Sequence", exprs |-> es]
Variable(i) == [tag |-> "Variable", i |-> i]

Var(i) == [tag |-> "Var", i |-> i]
abs(t) == [tag |-> "Abs", body |-> t]
app(f, a) == [tag |-> "App", f |-> f, a |-> a]

InvalidCharacter(p, c) == [tag |-> "InvalidCharacter", position |-> p, char |-> c]
InvalidExpression == [tag |-> "InvalidExpression"]
EmptyExpression == [tag |-> "EmptyExpression"]
\* the panic of an out-of-bounds slice index
Panic == [tag |-> "Panic"]

Ok(v) == [tag |-> "Ok", val |-> v]
Err(e) == [tag |-> "Err", err |-> e]

(***************************************************************************)
(* tokenize                                                                *)
(***************************************************************************)
\* char::to_digit(16); -1 stands for None
to_digit(x) ==
    IF x >= 48 /\ x <= 57 THEN x - 48
    ELSE IF x >= 65 /\ x <= 70 THEN x - 55
    ELSE IF x >= 97 /\ x <= 102 THEN x - 87
    ELSE -1

\* char::is_whitespace: the Unicode White_Space property
is_whitespace(x) ==
    \/ x >= 9 /\ x <= 13
    \/ x \in {32, 133, 160, 5760, 8232, 8233, 8239, 8287, 12288}
    \/ x >= 8192 /\ x <= 8202

is_lambda_accept_glyph_only(c) == c = Ch.glyph

\* the match arm '\\' | 'λ'
is_lambda(c) == c = Ch.backslash \/ c = Ch.glyph

\* position += if c == 'λ' { 2 } else { 1 }
position_step(c) == IF c = Ch.glyph THEN 2 ELSE 1

tokenize_skip_invalid(c, toks, position) ==
    IF is_lambda(c) THEN Ok(Append(toks, Lambda))
    ELSE IF c = Ch.lparen THEN Ok(Append(toks, Lparen))
    ELSE IF c = Ch.rparen THEN Ok(Append(toks, Rparen))
    ELSE IF to_digit(c) # -1 THEN Ok(Append(toks, Number(to_digit(c))))
    ELSE Ok(toks)

\* one iteration of the match on c: Ok(tokens pushed so far) or the error
tokenize_char(c, toks, position) ==
    IF is_lambda(c) THEN Ok(Append(toks, Lambda))
    ELSE IF c = Ch.lparen THEN Ok(Append(toks, Lparen))
    ELSE IF c = Ch.rparen THEN Ok(Append(toks, Rparen))
    ELSE IF to_digit(c) # -1 THEN Ok(Append(toks, Number(to_digit(c))))
    ELSE IF is_whitespace(c) THEN Ok(toks)
    ELSE Err(InvalidCharacter(position, c))

RECURSIVE tokenize_loop(_, _, _)
tokenize_loop(chars, toks, position) ==
    IF chars = <<>> THEN Ok(toks)
    ELSE LET c == Head(chars)
             r == tokenize_char(c, toks, position)
         IN  IF r.tag = "Err" THEN r
             ELSE tokenize_loop(Tail(chars), r.val, position + position_step(c))

tokenize(s) == tokenize_loop(s, <<>>, 0)

(***************************************************************************)
(* _get_ast, get_ast                                                       *)
(***************************************************************************)
RECURSIVE ast_loop(_, _, _)
RECURSIVE _get_ast(_, _)

ast_loop_guard_inclusive(toks, pos) == pos <= Len(toks)

\* the loop condition  *pos < tokens.len()
ast_loop_guard(toks, pos) == pos < Len(toks)

\* tokens[*pos], a bounds-checked slice index
token_at(toks, pos) == IF pos < Len(toks) THEN toks[pos + 1] ELSE Panic

ok_sequence_unwrap_single(expr) ==
    IF Len(expr) = 1 THEN Ok(expr[1]) ELSE Ok(Sequence(expr))

\* Ok(Sequence(expr)), the value of both exits of _get_ast
ok_sequence(expr) == Ok(Sequence(expr))

rparen_arm_continue(toks, pos, expr) == ast_loop(toks, pos + 1, expr)

\* the Rparen arm: return at once, the cursor left on the Rparen
rparen_arm(toks, pos, expr) == [res |-> ok_sequence(expr), pos |-> pos]

\* the while loop of _get_ast; yields the Result and the cursor it leaves
ast_loop(toks, pos, expr) ==
    IF ~ast_loop_guard(toks, pos) THEN [res |-> ok_sequence(expr), pos |-> pos]
    ELSE LET t == token_at(toks, pos) IN
         CASE t.tag = "Lambda" -> ast_loop(toks, pos + 1, Append(expr, Abstraction))
           [] t.tag = "Number" -> ast_loop(toks, pos + 1, Append(expr, Variable(t.n)))
           [] t.tag = "Lparen" ->
                LET sub == _get_ast(toks, pos + 1) IN
                IF sub.res.tag = "Err" THEN sub
                ELSE ast_loop(toks, sub.pos + 1, Append(expr, sub.res.val))
           [] t.tag = "Rparen" -> rparen_arm(toks, pos, expr)
           [] t.tag = "Panic" -> [res |-> Err(Panic), pos |-> pos]

_get_ast(toks, pos) ==
    IF toks = <<>> THEN [res |-> Err(EmptyExpression), pos |-> pos]
    ELSE ast_loop(toks, pos, <<>>)

get_ast(toks) == _get_ast(toks, 0).res

(***************************************************************************)
(* fold_terms, fold_exprs                                                  *)
(***************************************************************************)
RECURSIVE reverse(_)
reverse(s) == IF s = <<>> THEN <<>> ELSE Append(reverse(Tail(s)), Head(s))

RECURSIVE iter_fold_flipped(_, _)
iter_fold_flipped(acc, ts) ==
    IF ts = <<>> THEN acc ELSE iter_fold_flipped(app(Head(ts), acc), Tail(ts))

\* Iterator::fold(fst, |acc, t| app(acc, t))
RECURSIVE iter_fold(_, _)
iter_fold(acc, ts) ==
    IF ts = <<>> THEN acc ELSE iter_fold(app(acc, Head(ts)), Tail(ts))

fold_terms(terms) ==
    IF Len(terms) > 1 THEN
        LET r1 == reverse(terms)
            fst == r1[Len(r1)]
            rest == reverse(SubSeq(r1, 1, Len(r1) - 1))
        IN  Ok(iter_fold(fst, rest))
    ELSE IF Len(terms) = 1 THEN Ok(terms[Len(terms)])
    ELSE Err(EmptyExpression)

pop_stack_once(ret, stack) ==
    IF stack = <<>> THEN ret ELSE abs(ret)

\* while let Some(Abstraction) = stack.pop() { ret = abs(ret) }
RECURSIVE pop_stack(_, _)
pop_stack(ret, stack) ==
    IF stack = <<>> THEN ret
    ELSE IF stack[Len(stack)] = Abstraction
         THEN pop_stack(abs(ret), SubSeq(stack, 1, Len(stack) - 1))
         ELSE ret

RECURSIVE fold_exprs_skip_failed(_, _, _)
fold_exprs_skip_failed(es, stack, output) ==
    IF es = <<>> THEN
        LET r == fold_terms(output) IN
        IF r.tag = "Err" THEN r ELSE Ok(pop_stack(r.val, stack))
    ELSE LET expr == Head(es) IN
         CASE expr.tag = "Variable" ->
                fold_exprs_skip_failed(Tail(es), stack, Append(output, Var(expr.i)))
           [] expr.tag = "Abstraction" ->
                fold_exprs_skip_failed(Tail(es), Append(stack, Abstraction), output)
           [] expr.tag = "Sequence" ->
                LET subexpr == fold_exprs_skip_failed(expr.exprs, <<>>, <<>>) IN
                IF subexpr.tag = "Err" THEN fold_exprs_skip_failed(Tail(es), stack, output)
                ELSE fold_exprs_skip_failed(Tail(es), stack, Append(output, subexpr.val))

RECURSIVE fold_exprs(_, _, _)
fold_exprs(es, stack, output) ==
    IF es = <<>> THEN
        LET r == fold_terms(output) IN
        IF r.tag = "Err" THEN r ELSE Ok(pop_stack(r.val, stack))
    ELSE LET expr == Head(es) IN
         CASE expr.tag = "Variable" ->
                fold_exprs(Tail(es), stack, Append(output, Var(expr.i)))
           [] expr.tag = "Abstraction" ->
                fold_exprs(Tail(es), Append(stack, Abstraction), output)
           [] expr.tag = "Sequence" ->
                LET subexpr == fold_exprs(expr.exprs, <<>>, <<>>) IN
                IF subexpr.tag = "Err" THEN subexpr
                ELSE fold_exprs(Tail(es), stack, Append(output, subexpr.val))

(***************************************************************************)
(* parse, as one operator                                                  *)
(***************************************************************************)
parse(s) ==
    LET toks == tokenize(s) IN
    IF toks.tag = "Err" THEN toks
    ELSE LET ast == get_ast(toks.val) IN
         IF ast.tag = "Err" THEN ast
         ELSE IF ast.val.tag # "Sequence" THEN Err(InvalidExpression)
         ELSE fold_exprs(ast.val.exprs, <<>>, <<>>)

(***************************************************************************)
(* The canonical formatter of Term (the Display collaborator)              *)
(***************************************************************************)
\* one hexadecimal digit for an index 0..15
hex_digit(i) == IF i < 10 THEN 48 + i ELSE 55 + i

parenthesize_if(s, cond) == IF cond THEN <<Ch.lparen>> \o s \o <<Ch.rparen>> ELSE s

\* minimal rendering: an abstraction is parenthesised when it is the
\* function or the argument of an application (ctx > 1), an application
\* when it is an argument (ctx = 3)
RECURSIVE show_precedence(_, _)
show_precedence(term, ctx) ==
    CASE term.tag = "Var" -> <<hex_digit(term.i)>>
      [] term.tag = "Abs" ->
            parenthesize_if(<<Ch.glyph>> \o show_precedence(term.body, 0), ctx > 1)
      [] term.tag = "App" ->
            parenthesize_if(show_precedence(term.f, 2) \o show_precedence(term.a, 3), ctx = 3)

format(term) == show_precedence(term, 0)

(***************************************************************************)
(* Inputs                                                                  *)
(***************************************************************************)
MaxLen == 4
MaxSize == 5

Alphabet == {Ch.backslash, Ch.glyph, Ch.lparen, Ch.rparen, Ch.d0, Ch.d1,
             Ch.space, Ch.nbsp, Ch.x, Ch.at}

StringsUpTo(n) == UNION {[1..k -> Alphabet] : k \in 0..n}

VarIdx == {1, 2}

\* the terms with exactly n nodes
RECURSIVE TermsOfSize(_)
TermsOfSize(n) ==
    IF n = 1 THEN {Var(i) : i \in VarIdx}
    ELSE {abs(t) : t \in TermsOfSize(n - 1)}
         \cup UNION {{app(f, a) : f \in TermsOfSize(k), a \in TermsOfSize(n - 1 - k)} :
                       k \in 1..(n - 2)}

\* λλλ2(321)
SuccTerm == abs(abs(abs(app(Var(2), app(app(Var(3), Var(2)), Var(1))))))
\* λ(λ2(11))(λ2(11))
YTerm == abs(app(abs(app(Var(2), app(Var(1), Var(1)))),
                 abs(app(Var(2), app(Var(1), Var(1))))))

CanonTerms == UNION {TermsOfSize(n) : n \in 1..MaxSize} \cup {SuccTerm, YTerm}

MinimalForms == {format(t) : t \in CanonTerms}

\* "λλλ2(321)"
SuccStr == <<Ch.glyph, Ch.glyph, Ch.glyph, Ch.d2, Ch.lparen, Ch.d3, Ch.d2, Ch.d1, Ch.rparen>>
\* "\\\2(321)"
SuccStrBackslash == <<Ch.backslash, Ch.backslash, Ch.backslash, Ch.d2, Ch.lparen, Ch.d3,
                      Ch.d2, Ch.d1, Ch.rparen>>
\* "λ(λ2(11))(λ2(11))"
YStr == <<Ch.glyph, Ch.lparen, Ch.glyph, Ch.d2, Ch.lparen, Ch.d1, Ch.d1, Ch.rparen, Ch.rparen,
          Ch.lparen, Ch.glyph, Ch.d2, Ch.lparen, Ch.d1, Ch.d1, Ch.rparen, Ch.rparen>>
\* "λλx2"
TokErrStr == <<Ch.glyph, Ch.glyph, Ch.x, Ch.d2>>
\* "λ λ @"
AtStr == <<Ch.glyph, Ch.space, Ch.glyph, Ch.space, Ch.at>>
\* "λ 1 ( (λ 1 1) )"
SpacedStr == <<Ch.glyph, Ch.space, Ch.d1, Ch.space, Ch.lparen, Ch.space, Ch.lparen, Ch.glyph,
               Ch.space, Ch.d1, Ch.space, Ch.d1, Ch.rparen, Ch.space, Ch.rparen>>
\* "1(λ)"
EmptyGroupStr == <<Ch.d1, Ch.lparen, Ch.glyph, Ch.rparen>>

RegressionInputs == {SuccStr, SuccStrBackslash, YStr, TokErrStr, AtStr, SpacedStr, EmptyGroupStr}

Inputs == StringsUpTo(MaxLen) \cup MinimalForms \cup RegressionInputs

(***************************************************************************)
(* The parse pipeline as a state machine                                   *)
(***************************************************************************)
NoResult == [tag |-> "None"]

Init ==
    /\ input \in Inputs
    /\ pc = "tokenize"
    /\ tokens = <<>>
    /\ exprs = <<>>
    /\ result = NoResult

\* let tokens = try!(tokenize(input))
Tokenize ==
    /\ pc = "tokenize"
    /\ LET r == tokenize(input) IN
       IF r.tag = "Err"
       THEN /\ result' = r
            /\ pc' = "done"
            /\ UNCHANGED tokens
       ELSE /\ tokens' = r.val
            /\ pc' = "get_ast"
            /\ UNCHANGED result
    /\ UNCHANGED <<input, exprs>>

\* let ast = try!(get_ast(&tokens)); let exprs = try!(if let Sequence(exprs) = ast ...)
GetAst ==
    /\ pc = "get_ast"
    /\ LET ast == get_ast(tokens) IN
       IF ast.tag = "Err"
       THEN /\ result' = ast
            /\ pc' = "done"
            /\ UNCHANGED exprs
       ELSE IF ast.val.tag = "Sequence"
       THEN /\ exprs' = ast.val.exprs
            /\ pc' = "fold"
            /\ UNCHANGED result
       ELSE /\ result' = Err(InvalidExpression)
            /\ pc' = "done"
            /\ UNCHANGED exprs
    /\ UNCHANGED <<input, tokens>>

\* fold_exprs(&exprs, &mut stack, &mut output) with fresh stack and output
Fold ==
    /\ pc = "fold"
    /\ result' = fold_exprs(exprs, <<>>, <<>>)
    /\ pc' = "done"
    /\ UNCHANGED <<input, tokens, exprs>>

Next == Tokenize \/ GetAst \/ Fold

Spec == Init /\ [][Next]_vars

(***************************************************************************)
(* Vocabulary of the properties, stated on the input text itself           *)
(***************************************************************************)
HexDigitChars == (48..57) \cup (65..70) \cup (97..102)

WhiteSpaceChars ==
    (9..13) \cup {32, 133, 160, 5760, 8232, 8233, 8239, 8287, 12288} \cup (8192..8202)

ValidChar(c) ==
    c \in {Ch.glyph, Ch.backslash, Ch.lparen, Ch.rparen} \cup HexDigitChars \cup WhiteSpaceChars

AllValid(s) == \A j \in 1..Len(s) : ValidChar(s[j])

\* index of the leftmost invalid character of s (s has one)
FirstInvalidIdx(s) ==
    CHOOSE j \in 1..Len(s) : ~ValidChar(s[j]) /\ \A k \in 1..(j - 1) : ValidChar(s[k])

\* length of the UTF-8 encoding of a scalar value
Utf8Len(c) == IF c < 128 THEN 1 ELSE IF c < 2048 THEN 2 ELSE IF c < 65536 THEN 3 ELSE 4

\* byte offset of the j-th character of s
RECURSIVE ByteOffset(_, _)
ByteOffset(s, j) == IF j <= 1 THEN 0 ELSE ByteOffset(s, j - 1) + Utf8Len(s[j - 1])

NoTokensIn(s) == \A j \in 1..Len(s) : s[j] \in WhiteSpaceChars

\* s without whitespace and with every lambda spelled as a backslash
Canon(s) ==
    LET NotWs(c) == c \notin WhiteSpaceChars
        t == SelectSeq(s, NotWs)
    IN  [j \in 1..Len(t) |-> IF t[j] = Ch.glyph THEN Ch.backslash ELSE t[j]]

\* index of the first ')' of s with no matching '(' before it, 0 if none
RECURSIVE FirstUnmatchedClose(_, _, _)
FirstUnmatchedClose(s, j, depth) ==
    IF j > Len(s) THEN 0
    ELSE IF s[j] = Ch.lparen THEN FirstUnmatchedClose(s, j + 1, depth + 1)
    ELSE IF s[j] = Ch.rparen THEN
         IF depth = 0 THEN j ELSE FirstUnmatchedClose(s, j + 1, depth - 1)
    ELSE FirstUnmatchedClose(s, j + 1, depth)

\* number of '(' of s left open at its end (s has no unmatched ')')
RECURSIVE OpenDepth(_, _, _)
OpenDepth(s, j, depth) ==
    IF j > Len(s) THEN depth
    ELSE IF s[j] = Ch.lparen THEN OpenDepth(s, j + 1, depth + 1)
    ELSE IF s[j] = Ch.rparen THEN OpenDepth(s, j + 1, depth - 1)
    ELSE OpenDepth(s, j + 1, depth)

Closers(k) == [j \in 1..k |-> Ch.rparen]

IsMarker(e) == e.tag = "Abstraction"
IsOperand(e) == e.tag # "Abstraction"
Markers(es) == Len(SelectSeq(es, IsMarker))
OperandsOf(es) == SelectSeq(es, IsOperand)

\* the element lists of a sequence and of every sequence nested in it
RECURSIVE AllLevels(_)
AllLevels(es) ==
    {es} \cup UNION {AllLevels(es[j].exprs) : j \in {k \in 1..Len(es) : es[k].tag = "Sequence"}}

RECURSIVE AbsN(_, _)
AbsN(k, t) == IF k = 0 THEN t ELSE abs(AbsN(k - 1, t))

\* ((o1 o2) o3 ... on)
RECURSIVE LeftAssoc(_)
LeftAssoc(ops) ==
    IF Len(ops) = 1 THEN ops[1]
    ELSE app(LeftAssoc(SubSeq(ops, 1, Len(ops) - 1)), ops[Len(ops)])

Resolved(o) == IF o.tag = "Variable" THEN Ok(Var(o.i)) ELSE fold_exprs(o.exprs, <<>>, <<>>)

HasResolvedOperands(es) ==
    LET ops == OperandsOf(es)
    IN  Len(ops) >= 1 /\ \A j \in 1..Len(ops) : Resolved(ops[j]).tag = "Ok"

LevelExpected(es) ==
    LET ops == OperandsOf(es)
    IN  AbsN(Markers(es), LeftAssoc([j \in 1..Len(ops) |-> Resolved(ops[j]).val]))

RECURSIVE AllVarsPositive(_)
AllVarsPositive(t) ==
    CASE t.tag = "Var" -> t.i >= 1
      [] t.tag = "Abs" -> AllVarsPositive(t.body)
      [] t.tag = "App" -> AllVarsPositive(t.f) /\ AllVarsPositive(t.a)

Done == pc = "done"
\* parse got as far as fold_exprs
FoldRan == Done /\ (result.tag = "Ok" \/ (result.err.tag = "EmptyExpression" /\ tokens # <<>>))

(***************************************************************************)
(* Properties                                                              *)
(***************************************************************************)
TypeOK == pc \in {"tokenize", "get_ast", "fold", "done"}

\* C1: round trip -- when the input is the minimal-form rendering of a term,
\* parse succeeds and formatting the parsed term gives the input back.
C1_RoundTrip ==
    Done /\ input \in MinimalForms => result.tag = "Ok" /\ format(result.val) = input

C1_Witness == Done /\ input = YStr /\ result.tag = "Ok" /\ format(result.val) = YStr

\* C2: the result of parse does not depend on how lambdas are spelled nor on
\* whitespace -- an input of valid characters parses to the same result as the
\* input with whitespace removed and every lambda written as a backslash.
C2_SpellingAndWhitespace ==
    Done /\ AllValid(input) => result = parse(Canon(input))

C2_Witness ==
    Done /\ input = SpacedStr /\ result.tag = "Ok" /\ Canon(input) # input
         /\ result = parse(Canon(input))

\* C3: curried folding -- at every nesting level with k markers and n >= 1
\* resolved operands the folder returns k abstractions around the
\* left-associated application of the operands; "λλλ2(321)" is the successor.
C3_CurriedFolding ==
    /\ pc \in {"fold", "done"} =>
          \A lvl \in AllLevels(exprs) :
              HasResolvedOperands(lvl) => fold_exprs(lvl, <<>>, <<>>) = Ok(LevelExpected(lvl))
    /\ FoldRan /\ HasResolvedOperands(exprs) => result = Ok(LevelExpected(exprs))
    /\ Done /\ input = SuccStr => result = Ok(SuccTerm)

C3_Witness ==
    Done /\ input = SuccStr /\ Markers(exprs) = 3 /\ Len(OperandsOf(exprs)) = 2
         /\ result = Ok(SuccTerm)

\* C4: the position of an InvalidCharacter error is the byte offset of the
\* offending character in the UTF-8 encoding of the input.
C4_PositionIsByteOffset ==
    Done /\ result.tag = "Err" /\ result.err.tag = "InvalidCharacter" =>
        result.err.position = ByteOffset(input, FirstInvalidIdx(input))

\* C5: on an input of valid characters parse fails with EmptyExpression exactly
\* when the input has no tokens or some sequence of the tree has no operand left
\* once its markers are removed; otherwise it returns a Term.
C5_EmptyExpression ==
    Done /\ AllValid(input) =>
        /\ result = Err(EmptyExpression) <=>
              (NoTokensIn(input) \/ \E lvl \in AllLevels(exprs) : OperandsOf(lvl) = <<>>)
        /\ result # Err(EmptyExpression) => result.tag = "Ok"

C5_Witness == Done /\ input = EmptyGroupStr /\ result = Err(EmptyExpression)

\* C6: an input with an invalid character makes parse fail with InvalidCharacter
\* naming the leftmost invalid character; never a Term, never EmptyExpression.
C6_InvalidCharacterFirst ==
    Done /\ ~AllValid(input) =>
        /\ result.tag = "Err"
        /\ result.err.tag = "InvalidCharacter"
        /\ result.err.char = input[FirstInvalidIdx(input)]

C6_Witness ==
    Done /\ input = <<Ch.rparen, Ch.lparen, Ch.rparen, Ch.at>>
         /\ result.tag = "Err" /\ result.err.tag = "InvalidCharacter" /\ result.err.char = Ch.at

\* C7: every variable of a Term returned by parse has a positive index.
C7_PositiveIndices ==
    Done /\ result.tag = "Ok" => AllVarsPositive(result.val)

\* C8: parse never returns InvalidExpression -- a successful get_ast is always a
\* Sequence, and parse ends with a Term, InvalidCharacter or EmptyExpression.
C8_NoInvalidExpression ==
    /\ pc = "get_ast" /\ get_ast(tokens).tag = "Ok" => get_ast(tokens).val.tag = "Sequence"
    /\ Done => \/ result.tag = "Ok"
               \/ result.tag = "Err" /\ result.err.tag \in {"InvalidCharacter", "EmptyExpression"}

C8_Witness == Done /\ input = <<Ch.d1>> /\ tokens = <<Number(1)>> /\ result = Ok(Var(1))

\* C9: an unmatched ')' truncates -- an input of valid characters with an
\* unmatched ')' parses to the result of the prefix before the first one.
C9_UnmatchedCloseTruncates ==
    Done /\ AllValid(input) /\ FirstUnmatchedClose(input, 1, 0) # 0 =>
        result = parse(SubSeq(input, 1, FirstUnmatchedClose(input, 1, 0) - 1))

C9_Witness ==
    Done /\ input = <<Ch.d1, Ch.rparen, Ch.d0, Ch.d0>> /\ result = Ok(Var(1))

\* C10: unclosed '(' are absorbed -- an input of valid characters without an
\* unmatched ')' and with k >= 1 '(' left open parses, without an
\* out-of-bounds token access, to the result of the input followed by k ')'.
C10_UnmatchedOpenAbsorbed ==
    Done /\ AllValid(input) /\ FirstUnmatchedClose(input, 1, 0) = 0
         /\ OpenDepth(input, 1, 0) >= 1 =>
        /\ result # Err(Panic)
        /\ result = parse(input \o Closers(OpenDepth(input, 1, 0)))

C10_Witness ==
    Done /\ input = <<Ch.d1, Ch.lparen, Ch.lparen, Ch.d0>>
         /\ result = Ok(app(Var(1), Var(0)))
====
